---- MODULE Spec2Model ----
(***************************************************************************)
(* Model of bst_ext.c: a pointer-based, unbalanced binary search tree with *)
(* recursive and iterative insert, delete, traversals, neighbour queries   *)
(* and a preorder-with-sentinel text codec, driven by a menu loop.         *)
(*                                                                         *)
(* Nodes live in a heap: a function from the addresses handed out by       *)
(* malloc to struct Node values.  free removes an address from the heap's  *)
(* domain, so any later dereference of it is an evaluation error.          *)
(***************************************************************************)
EXTENDS Integers, Sequences, FiniteSets, TLC

\* ------------------------------------------------------------------ bounds
MaxKey == 4          \* number of distinct keys typed at the prompts
MaxNodes == 7        \* number of struct Node cells malloc can hand out
MaxTokens == 4       \* length, in tokens, of a hand-written input file
MaxSmallKey == 3     \* number of distinct keys typed where saved files or
                     \* per-key histories multiply the states
MaxMenuKey == 1      \* number of distinct keys typed next to hand-written files
MaxMenuNodes == 4    \* size a tree may have when a key is added to a loaded tree
MaxFileNodes == 2    \* number of integer words in a file written to the grammar

\* The keys typed at the insert/delete/query prompts: negative, one-digit
\* and two-digit values (-7, 4, 15, 26, ...).
KeyAt(i) == 11 * i - 18
Keys == {KeyAt(i) : i \in 1 .. MaxKey}
SmallKeys == {KeyAt(i) : i \in 1 .. MaxSmallKey}
MenuKeys == {KeyAt(i) : i \in 1 .. MaxMenuKey}
Addr == 1 .. MaxNodes
NULL == 0

\* ------------------------------------------------------------- struct Node
Node(k, l, r) == [key |-> k, left |-> l, right |-> r]

SetMin(S) == CHOOSE x \in S : \A y \in S : x <= y

\* malloc has a cell to hand out
CanAlloc(h) == Addr \ DOMAIN h # {}

\* newNode: malloc a cell, set the key, both children NULL.
\* Returns the heap after the allocation and the address of the new cell.
newNode(h, key) ==
    LET a == SetMin(Addr \ DOMAIN h)
    IN  [h |-> [x \in DOMAIN h \cup {a} |->
                   IF x = a THEN Node(key, NULL, NULL) ELSE h[x]],
         ret |-> a]

\* free(p): the cell leaves the heap
free(h, p) == [x \in DOMAIN h \ {p} |-> h[x]]

\* ------------------------------------------------------------------ insert
RECURSIVE insert_recursive(_, _, _)
insert_recursive(h, root, key) ==
    IF root = NULL THEN newNode(h, key)
    ELSE IF key < h[root].key THEN
        LET r == insert_recursive(h, h[root].left, key)
        IN  [h |-> [r.h EXCEPT ![root].left = r.ret], ret |-> root]
    ELSE IF key > h[root].key THEN
        LET r == insert_recursive(h, h[root].right, key)
        IN  [h |-> [r.h EXCEPT ![root].right = r.ret], ret |-> root]
    ELSE [h |-> h, ret |-> root]

\* The while loop of insert_iterative: returns the last node visited
\* (parent), or NULL when the key was met on the way (duplicate).
RECURSIVE IterDescend_noDup(_, _, _, _)
IterDescend_noDup(h, cur, parent, key) ==
    IF cur = NULL THEN parent
    ELSE IF key < h[cur].key THEN IterDescend_noDup(h, h[cur].left, cur, key)
    ELSE IterDescend_noDup(h, h[cur].right, cur, key)

RECURSIVE IterDescend(_, _, _, _)
IterDescend(h, cur, parent, key) ==
    IF cur = NULL THEN parent
    ELSE IF key < h[cur].key THEN IterDescend(h, h[cur].left, cur, key)
    ELSE IF key > h[cur].key THEN IterDescend(h, h[cur].right, cur, key)
    ELSE NULL

insert_iterative_swapped(h, root, key) ==
    IF root = NULL THEN newNode(h, key)
    ELSE LET parent == IterDescend(h, root, NULL, key)
         IN  IF parent = NULL THEN [h |-> h, ret |-> root]
             ELSE LET n == newNode(h, key)
                  IN  IF key > h[parent].key
                      THEN [h |-> [n.h EXCEPT ![parent].left = n.ret], ret |-> root]
                      ELSE [h |-> [n.h EXCEPT ![parent].right = n.ret], ret |-> root]

insert_iterative(h, root, key) ==
    IF root = NULL THEN newNode(h, key)
    ELSE LET parent == IterDescend(h, root, NULL, key)
         IN  IF parent = NULL THEN [h |-> h, ret |-> root]
             ELSE LET n == newNode(h, key)
                  IN  IF key < h[parent].key
                      THEN [h |-> [n.h EXCEPT ![parent].left = n.ret], ret |-> root]
                      ELSE [h |-> [n.h EXCEPT ![parent].right = n.ret], ret |-> root]

\* ------------------------------------------------------------------ search
\* a search that descends to the wrong side
RECURSIVE search_recursive_flipped(_, _, _)
search_recursive_flipped(h, root, key) ==
    IF root = NULL \/ h[root].key = key THEN root
    ELSE IF key > h[root].key THEN search_recursive_flipped(h, h[root].left, key)
    ELSE search_recursive_flipped(h, h[root].right, key)

RECURSIVE search_recursive(_, _, _)
search_recursive(h, root, key) ==
    IF root = NULL \/ h[root].key = key THEN root
    ELSE IF key < h[root].key THEN search_recursive(h, h[root].left, key)
    ELSE search_recursive(h, h[root].right, key)

\* ------------------------------------------------------------------ delete
RECURSIVE MinWalk(_, _)
MinWalk(h, cur) == IF h[cur].left # NULL THEN MinWalk(h, h[cur].left) ELSE cur

minValueNode_noWalk(h, node) == node

minValueNode(h, node) == IF node = NULL THEN NULL ELSE MinWalk(h, node)

\* the two-child case copies the successor's key and leaves the successor
RECURSIVE deleteNode_keepSuccessor(_, _, _)
deleteNode_keepSuccessor(h, root, key) ==
    IF root = NULL THEN [h |-> h, ret |-> root]
    ELSE IF key < h[root].key THEN
        LET r == deleteNode_keepSuccessor(h, h[root].left, key)
        IN  [h |-> [r.h EXCEPT ![root].left = r.ret], ret |-> root]
    ELSE IF key > h[root].key THEN
        LET r == deleteNode_keepSuccessor(h, h[root].right, key)
        IN  [h |-> [r.h EXCEPT ![root].right = r.ret], ret |-> root]
    ELSE IF h[root].left = NULL THEN
        [h |-> free(h, root), ret |-> h[root].right]
    ELSE IF h[root].right = NULL THEN
        [h |-> free(h, root), ret |-> h[root].left]
    ELSE
        LET temp == minValueNode(h, h[root].right)
        IN  [h |-> [h EXCEPT ![root].key = h[temp].key], ret |-> root]

\* the first comparison is <= : an equal key is looked for on the left
RECURSIVE deleteNode_leq(_, _, _)
deleteNode_leq(h, root, key) ==
    IF root = NULL THEN [h |-> h, ret |-> root]
    ELSE IF key <= h[root].key THEN
        LET r == deleteNode_leq(h, h[root].left, key)
        IN  [h |-> [r.h EXCEPT ![root].left = r.ret], ret |-> root]
    ELSE
        LET r == deleteNode_leq(h, h[root].right, key)
        IN  [h |-> [r.h EXCEPT ![root].right = r.ret], ret |-> root]

\* a delete that hands back the node it freed when that node has no left child
RECURSIVE deleteNode_stale(_, _, _)
deleteNode_stale(h, root, key) ==
    IF root = NULL THEN [h |-> h, ret |-> root]
    ELSE IF key < h[root].key THEN
        LET r == deleteNode_stale(h, h[root].left, key)
        IN  [h |-> [r.h EXCEPT ![root].left = r.ret], ret |-> root]
    ELSE IF key > h[root].key THEN
        LET r == deleteNode_stale(h, h[root].right, key)
        IN  [h |-> [r.h EXCEPT ![root].right = r.ret], ret |-> root]
    ELSE IF h[root].left = NULL THEN
        [h |-> free(h, root), ret |-> root]
    ELSE IF h[root].right = NULL THEN
        [h |-> free(h, root), ret |-> h[root].left]
    ELSE
        LET temp == minValueNode(h, h[root].right)
            h1   == [h EXCEPT ![root].key = h[temp].key]
            r    == deleteNode_stale(h1, h1[root].right, h1[temp].key)
        IN  [h |-> [r.h EXCEPT ![root].right = r.ret], ret |-> root]

\* a delete that forgets the left child of a node without a right child
RECURSIVE deleteNode_dropChild(_, _, _)
deleteNode_dropChild(h, root, key) ==
    IF root = NULL THEN [h |-> h, ret |-> root]
    ELSE IF key < h[root].key THEN
        LET r == deleteNode_dropChild(h, h[root].left, key)
        IN  [h |-> [r.h EXCEPT ![root].left = r.ret], ret |-> root]
    ELSE IF key > h[root].key THEN
        LET r == deleteNode_dropChild(h, h[root].right, key)
        IN  [h |-> [r.h EXCEPT ![root].right = r.ret], ret |-> root]
    ELSE IF h[root].left = NULL THEN
        [h |-> free(h, root), ret |-> h[root].right]
    ELSE IF h[root].right = NULL THEN
        [h |-> free(h, root), ret |-> NULL]
    ELSE
        LET temp == minValueNode(h, h[root].right)
            h1   == [h EXCEPT ![root].key = h[temp].key]
            r    == deleteNode_dropChild(h1, h1[root].right, h1[temp].key)
        IN  [h |-> [r.h EXCEPT ![root].right = r.ret], ret |-> root]

RECURSIVE deleteNode(_, _, _)
deleteNode(h, root, key) ==
    IF root = NULL THEN [h |-> h, ret |-> root]
    ELSE IF key < h[root].key THEN
        LET r == deleteNode(h, h[root].left, key)
        IN  [h |-> [r.h EXCEPT ![root].left = r.ret], ret |-> root]
    ELSE IF key > h[root].key THEN
        LET r == deleteNode(h, h[root].right, key)
        IN  [h |-> [r.h EXCEPT ![root].right = r.ret], ret |-> root]
    ELSE IF h[root].left = NULL THEN
        [h |-> free(h, root), ret |-> h[root].right]
    ELSE IF h[root].right = NULL THEN
        [h |-> free(h, root), ret |-> h[root].left]
    ELSE
        LET temp == minValueNode(h, h[root].right)
            h1   == [h EXCEPT ![root].key = h[temp].key]
            r    == deleteNode(h1, h1[root].right, h1[temp].key)
        IN  [h |-> [r.h EXCEPT ![root].right = r.ret], ret |-> root]

\* The branches one deleteNode call takes where the descent ends: "absent"
\* at a NULL link, "noLeft" / "noRight" / "two" at the node holding the key,
\* each with that node; after "two", the branches of the nested call.
RECURSIVE DeleteTrace(_, _, _)
DeleteTrace(h, root, key) ==
    IF root = NULL THEN << <<"absent", NULL>> >>
    ELSE IF key < h[root].key THEN DeleteTrace(h, h[root].left, key)
    ELSE IF key > h[root].key THEN DeleteTrace(h, h[root].right, key)
    ELSE IF h[root].left = NULL THEN << <<"noLeft", root>> >>
    ELSE IF h[root].right = NULL THEN << <<"noRight", root>> >>
    ELSE
        LET temp == minValueNode(h, h[root].right)
            h1   == [h EXCEPT ![root].key = h[temp].key]
        IN  << <<"two", root>> >> \o DeleteTrace(h1, h1[root].right, h1[temp].key)

\* -------------------------------------------------------------- traversals
\* Each traversal is modelled by the sequence of keys it prints.
RECURSIVE inorder(_, _)
inorder(h, root) ==
    IF root = NULL THEN <<>>
    ELSE inorder(h, h[root].left) \o <<h[root].key>> \o inorder(h, h[root].right)

RECURSIVE preorder(_, _)
preorder(h, root) ==
    IF root = NULL THEN <<>>
    ELSE <<h[root].key>> \o preorder(h, h[root].left) \o preorder(h, h[root].right)

RECURSIVE postorder(_, _)
postorder(h, root) ==
    IF root = NULL THEN <<>>
    ELSE postorder(h, h[root].left) \o postorder(h, h[root].right) \o <<h[root].key>>

\* -------------------------------------------------------------- statistics
\* a height that follows the shorter subtree
RECURSIVE height_shortest(_, _)
height_shortest(h, root) ==
    IF root = NULL THEN 0
    ELSE LET lh == height_shortest(h, h[root].left)
             rh == height_shortest(h, h[root].right)
         IN  1 + (IF lh < rh THEN lh ELSE rh)

RECURSIVE height(_, _)
height(h, root) ==
    IF root = NULL THEN 0
    ELSE LET lh == height(h, h[root].left)
             rh == height(h, h[root].right)
         IN  (IF lh > rh THEN lh ELSE rh) + 1

RECURSIVE count_nodes(_, _)
count_nodes(h, root) ==
    IF root = NULL THEN 0
    ELSE 1 + count_nodes(h, h[root].left) + count_nodes(h, h[root].right)

RECURSIVE count_leaves(_, _)
count_leaves(h, root) ==
    IF root = NULL THEN 0
    ELSE IF h[root].left = NULL /\ h[root].right = NULL THEN 1
    ELSE count_leaves(h, h[root].left) + count_leaves(h, h[root].right)

\* ------------------------------------------------------------- level order
\* The linked queue of QueueNode cells is modelled by the sequence of the
\* treeNode pointers it holds, head first.
enqueue(q, tn) == Append(q, tn)

\* a dequeue that takes the element enqueued last
dequeue_lifo(q) == [q |-> SubSeq(q, 1, Len(q) - 1), ret |-> q[Len(q)]]

dequeue(q) == [q |-> Tail(q), ret |-> Head(q)]

RECURSIVE LevelLoop(_, _, _)
LevelLoop(h, q, printed) ==
    IF q = <<>> THEN printed
    ELSE LET d  == dequeue(q)
             n  == d.ret
             q1 == IF h[n].left # NULL THEN enqueue(d.q, h[n].left) ELSE d.q
             q2 == IF h[n].right # NULL THEN enqueue(q1, h[n].right) ELSE q1
         IN  LevelLoop(h, q2, Append(printed, h[n].key))

levelOrder(h, root) ==
    IF root = NULL THEN <<>> ELSE LevelLoop(h, enqueue(<<>>, root), <<>>)

\* --------------------------------------------------- predecessor/successor
RECURSIVE MaxWalk(_, _)
MaxWalk(h, p) == IF h[p].right # NULL THEN MaxWalk(h, h[p].right) ELSE p

\* on an exact match the left subtree is not looked at
RECURSIVE PredLoop_noOverride(_, _, _, _)
PredLoop_noOverride(h, cur, pred, key) ==
    IF cur = NULL THEN pred
    ELSE IF key > h[cur].key THEN PredLoop_noOverride(h, h[cur].right, cur, key)
    ELSE IF key < h[cur].key THEN PredLoop_noOverride(h, h[cur].left, pred, key)
    ELSE pred

RECURSIVE PredLoop(_, _, _, _)
PredLoop(h, cur, pred, key) ==
    IF cur = NULL THEN pred
    ELSE IF key > h[cur].key THEN PredLoop(h, h[cur].right, cur, key)
    ELSE IF key < h[cur].key THEN PredLoop(h, h[cur].left, pred, key)
    ELSE IF h[cur].left # NULL THEN MaxWalk(h, h[cur].left)
    ELSE pred

predecessor(h, root, key) == PredLoop(h, root, NULL, key)

RECURSIVE SuccLoop(_, _, _, _)
SuccLoop(h, cur, succ, key) ==
    IF cur = NULL THEN succ
    ELSE IF key < h[cur].key THEN SuccLoop(h, h[cur].left, cur, key)
    ELSE IF key > h[cur].key THEN SuccLoop(h, h[cur].right, succ, key)
    ELSE IF h[cur].right # NULL THEN MinWalk(h, h[cur].right)
    ELSE succ

successor(h, root, key) == SuccLoop(h, root, NULL, key)

\* ------------------------------------------------------------------- codec
\* A file is the sequence of its characters.
DigitChars == <<"0", "1", "2", "3", "4", "5", "6", "7", "8", "9">>
IsDigit(c) == \E i \in 1 .. 10 : DigitChars[i] = c
DigitVal(c) == (CHOOSE i \in 1 .. 10 : DigitChars[i] = c) - 1
IsSpace(c) == c = " " \/ c = "\n" \/ c = "\t"

\* printf("%d"): the decimal digits of n, with a leading '-' when negative
RECURSIVE FormatNat(_)
FormatNat(n) ==
    IF n < 10 THEN <<DigitChars[n + 1]>>
    ELSE FormatNat(n \div 10) \o <<DigitChars[(n % 10) + 1]>>

FormatInt(n) == IF n < 0 THEN <<"-">> \o FormatNat(-n) ELSE FormatNat(n)

\* save_tree_preorder: the characters written to fp
\* a writer that puts the key between the two subtrees
RECURSIVE save_tree_preorder_keyBetween(_, _)
save_tree_preorder_keyBetween(h, root) ==
    IF root = NULL THEN <<"#", " ">>
    ELSE save_tree_preorder_keyBetween(h, h[root].left)
         \o FormatInt(h[root].key) \o <<" ">>
         \o save_tree_preorder_keyBetween(h, h[root].right)

RECURSIVE save_tree_preorder(_, _)
save_tree_preorder(h, root) ==
    IF root = NULL THEN <<"#", " ">>
    ELSE FormatInt(h[root].key) \o <<" ">>
         \o save_tree_preorder(h, h[root].left)
         \o save_tree_preorder(h, h[root].right)

\* fscanf(fp, "%63s", buf): skip white space, then store up to BufWidth
\* non-space characters.  ok is FALSE when end of file comes first.
\* pos is the number of characters of f consumed so far.
BufWidth == 63

RECURSIVE SkipSpace(_, _)
SkipSpace(f, pos) ==
    IF pos < Len(f) /\ IsSpace(f[pos + 1]) THEN SkipSpace(f, pos + 1) ELSE pos

RECURSIVE ScanWord(_, _, _)
ScanWord(f, pos, buf) ==
    IF pos < Len(f) /\ ~IsSpace(f[pos + 1]) /\ Len(buf) < BufWidth
    THEN ScanWord(f, pos + 1, Append(buf, f[pos + 1]))
    ELSE [buf |-> buf, pos |-> pos]

fscanf_s(f, pos) ==
    LET p == SkipSpace(f, pos)
        w == ScanWord(f, p, <<>>)
    IN  [ok |-> w.buf # <<>>, buf |-> w.buf, pos |-> w.pos]

\* atoi: optional sign, then the longest run of digits; anything else ends
\* the number, and no digits at all give 0.
RECURSIVE AtoiDigits(_, _, _)
AtoiDigits(buf, i, acc) ==
    IF i <= Len(buf) /\ IsDigit(buf[i])
    THEN AtoiDigits(buf, i + 1, 10 * acc + DigitVal(buf[i]))
    ELSE acc

\* the sign is skipped but not applied
atoi_noSign(buf) ==
    IF buf # <<>> /\ buf[1] \in {"-", "+"} THEN AtoiDigits(buf, 2, 0)
    ELSE AtoiDigits(buf, 1, 0)

atoi(buf) ==
    IF buf # <<>> /\ buf[1] = "-" THEN 0 - AtoiDigits(buf, 2, 0)
    ELSE IF buf # <<>> /\ buf[1] = "+" THEN AtoiDigits(buf, 2, 0)
    ELSE AtoiDigits(buf, 1, 0)

\* the sentinel is looked at but not consumed
RECURSIVE load_tree_preorder_peek(_, _, _)
load_tree_preorder_peek(h, f, pos) ==
    LET t == fscanf_s(f, pos)
    IN  IF ~t.ok THEN [h |-> h, ret |-> NULL, pos |-> t.pos]
        ELSE IF t.buf = <<"#">> THEN [h |-> h, ret |-> NULL, pos |-> pos]
        ELSE LET val == atoi(t.buf)
                 n   == newNode(h, val)
                 l   == load_tree_preorder_peek(n.h, f, t.pos)
                 h1  == [l.h EXCEPT ![n.ret].left = l.ret]
                 r   == load_tree_preorder_peek(h1, f, l.pos)
             IN  [h |-> [r.h EXCEPT ![n.ret].right = r.ret],
                  ret |-> n.ret, pos |-> r.pos]

\* load_tree_preorder: returns the heap, the subtree built and the file
\* position reached.
RECURSIVE load_tree_preorder(_, _, _)
load_tree_preorder(h, f, pos) ==
    LET t == fscanf_s(f, pos)
    IN  IF ~t.ok THEN [h |-> h, ret |-> NULL, pos |-> t.pos]
        ELSE IF t.buf = <<"#">> THEN [h |-> h, ret |-> NULL, pos |-> t.pos]
        ELSE LET val == atoi(t.buf)
                 n   == newNode(h, val)
                 l   == load_tree_preorder(n.h, f, t.pos)
                 h1  == [l.h EXCEPT ![n.ret].left = l.ret]
                 r   == load_tree_preorder(h1, f, l.pos)
             IN  [h |-> [r.h EXCEPT ![n.ret].right = r.ret],
                  ret |-> n.ret, pos |-> r.pos]

\* free_tree: every cell of the subtree leaves the heap
RECURSIVE free_tree(_, _)
free_tree(h, root) ==
    IF root = NULL THEN h
    ELSE free(free_tree(free_tree(h, h[root].left), h[root].right), root)

\* ------------------------------------------------------------------- state
VARIABLES
    heap,   \* the allocated struct Node cells: address -> [key, left, right]
    root,   \* main's root pointer
    file,   \* the file named at the save prompt: [exists, data], and, as
            \* history, snap: the tree it was written from
    last,   \* the menu choice just served: op; for a mutation, had: whether
            \* the key was in the tree before; for a load, input: the file
            \* read, and pos: how many of its characters were consumed; for
            \* choices 5 and 6, out: the sequences and numbers printed; for
            \* a delete, out: how many children the key's node had; while
            \* levelOrder runs (op "levelOrder") and when it has returned
            \* (op "levelOrder_end"), out: its queue, the keys printed, and
            \* the nodes enqueued and dequeued so far
    live,   \* history: the keys inserted and not deleted afterwards
    ever,   \* history: the keys ever inserted
    dels    \* history: how often each key was deleted (0, 1, 2 = more)

vars == <<heap, root, file, last, live, ever, dels>>

EmptyHeap == [x \in {} |-> Node(0, NULL, NULL)]

Report(op, had, input, pos, out) ==
    [op |-> op, had |-> had, input |-> input, pos |-> pos, out |-> out]

Init ==
    /\ heap = EmptyHeap
    /\ root = NULL
    /\ file = [exists |-> FALSE, data |-> <<>>, snap |-> <<>>]
    /\ last = Report("start", FALSE, <<>>, 0, <<>>)
    /\ live = {}
    /\ ever = {}
    /\ dels = [k \in Keys |-> 0]

\* ------------------------------------------------- hand-written input files
InTokens == {<<"#">>, <<"9">>, <<"x">>}

RECURSIVE TokenSeqs(_)
TokenSeqs(n) ==
    IF n = 0 THEN {<<>>}
    ELSE LET S == TokenSeqs(n - 1)
         IN  S \cup {Append(s, t) : s \in S, t \in InTokens}

RECURSIVE Join(_)
Join(ts) == IF ts = <<>> THEN <<>> ELSE Head(ts) \o <<" ">> \o Join(Tail(ts))

InputFiles == {Join(ts) : ts \in TokenSeqs(MaxTokens)}

\* the words fscanf would deliver from position pos on
RECURSIVE Words(_, _)
Words(f, pos) ==
    LET t == fscanf_s(f, pos)
    IN  IF t.ok THEN <<t.buf>> \o Words(f, t.pos) ELSE <<>>

\* the number of cells load_tree_preorder asks malloc for, reading f from pos
RECURSIVE LoadCells(_, _)
LoadCells(f, pos) ==
    LET t == fscanf_s(f, pos)
    IN  IF ~t.ok \/ t.buf = <<"#">> THEN [n |-> 0, pos |-> t.pos]
        ELSE LET l == LoadCells(f, t.pos)
                 r == LoadCells(f, l.pos)
             IN  [n |-> 1 + l.n + r.n, pos |-> r.pos]

\* -------------------------------------------------------- the set of keys
RECURSIVE NodeKeys(_, _)
NodeKeys(h, r) ==
    IF r = NULL THEN {}
    ELSE {h[r].key} \cup NodeKeys(h, h[r].left) \cup NodeKeys(h, h[r].right)

\* the shape of a tree as a value: <<>> or <<key, left shape, right shape>>
RECURSIVE Shape(_, _)
Shape(h, r) ==
    IF r = NULL THEN <<>>
    ELSE <<h[r].key, Shape(h, h[r].left), Shape(h, h[r].right)>>

\* what the menu can show of a tree
Snap(h, r) ==
    <<Shape(h, r), count_nodes(h, r), height(h, r), inorder(h, r),
      preorder(h, r), postorder(h, r), levelOrder(h, r)>>

\* ----------------------------------------------------------- menu choices
\* A failed malloc ends the process (newNode calls exit), so a choice that
\* needs a new cell is served only while malloc has one.
\* choice 1
DoInsertRecursive(key) ==
    /\ search_recursive(heap, root, key) = NULL => CanAlloc(heap)
    /\ \E r \in {insert_recursive(heap, root, key)} :
           heap' = r.h /\ root' = r.ret
    /\ last' = Report("insert_recursive", key \in NodeKeys(heap, root), <<>>, 0, <<>>)
    /\ live' = live \cup {key}
    /\ UNCHANGED file

\* choice 2
DoInsertIterative(key) ==
    /\ search_recursive(heap, root, key) = NULL => CanAlloc(heap)
    /\ \E r \in {insert_iterative(heap, root, key)} :
           heap' = r.h /\ root' = r.ret
    /\ last' = Report("insert_iterative", key \in NodeKeys(heap, root), <<>>, 0, <<>>)
    /\ live' = live \cup {key}
    /\ UNCHANGED file

\* the number of children of the node deleteNode finds for key (0: none found)
Kids(h, r, key) ==
    LET n == search_recursive(h, r, key)
    IN  IF n = NULL THEN 0
        ELSE (IF h[n].left # NULL THEN 1 ELSE 0) + (IF h[n].right # NULL THEN 1 ELSE 0)

\* choice 4
DoDelete(key) ==
    /\ \E r \in {deleteNode(heap, root, key)} :
           heap' = r.h /\ root' = r.ret
    /\ last' = Report("delete", key \in NodeKeys(heap, root), <<>>, 0,
                      <<Kids(heap, root, key)>>)
    /\ live' = live \ {key}
    /\ UNCHANGED file

InsertRecursive == \E key \in Keys : DoInsertRecursive(key) /\ UNCHANGED <<ever, dels>>

InsertIterative == \E key \in Keys : DoInsertIterative(key) /\ UNCHANGED <<ever, dels>>

Delete == \E key \in Keys : DoDelete(key) /\ UNCHANGED <<ever, dels>>

\* choice 3: the key is searched for and the finding printed
Search ==
    \E key \in Keys :
        /\ last' = Report("search", FALSE, <<>>, 0, <<>>)
        /\ UNCHANGED <<heap, root, file, live, ever, dels>>

\* choice 5
Traversals ==
    /\ last' = Report("traversals", FALSE, <<>>, 0,
                      <<inorder(heap, root), preorder(heap, root),
                        postorder(heap, root), levelOrder(heap, root)>>)
    /\ UNCHANGED <<heap, root, file, live, ever, dels>>

\* choice 6
Statistics ==
    /\ last' = Report("statistics", FALSE, <<>>, 0,
                      <<height(heap, root), count_nodes(heap, root),
                        count_leaves(heap, root)>>)
    /\ UNCHANGED <<heap, root, file, live, ever, dels>>

\* choice 7: both neighbours of the key are looked up and printed
PredSucc ==
    \E key \in Keys :
        /\ last' = Report("predsucc", FALSE, <<>>, 0, <<>>)
        /\ UNCHANGED <<heap, root, file, live, ever, dels>>

\* choice 8
Save ==
    /\ file' = [exists |-> TRUE, data |-> save_tree_preorder(heap, root),
                snap |-> Snap(heap, root)]
    /\ last' = Report("save", FALSE, <<>>, 0, <<>>)
    /\ UNCHANGED <<heap, root, live, ever, dels>>

\* choice 9, fopen succeeded on a file holding f: the current tree is freed,
\* then the new one is read.  malloc must have a cell for every key word read
\* (a file has at most MaxTokens words, or was written from the cells).
DoLoad(f) ==
    /\ IF MaxTokens <= MaxNodes THEN TRUE ELSE LoadCells(f, 0).n <= MaxNodes
    /\ \E r \in {load_tree_preorder(free_tree(heap, root), f, 0)} :
           /\ heap' = r.h
           /\ root' = r.ret
           /\ last' = Report("load", FALSE, f, r.pos, <<>>)
           /\ live' = NodeKeys(r.h, r.ret)
    /\ UNCHANGED <<file, ever, dels>>

LoadSaved == file.exists /\ DoLoad(file.data)

LoadInput == \E f \in InputFiles : DoLoad(f)

\* choice 9, fopen failed
LoadMissing ==
    /\ ~file.exists
    /\ last' = Report("load_failed", FALSE, <<>>, 0, <<>>)
    /\ UNCHANGED <<heap, root, file, live, ever, dels>>

\* choice 10
Clear ==
    /\ heap' = free_tree(heap, root)
    /\ root' = NULL
    /\ last' = Report("clear", FALSE, <<>>, 0, <<>>)
    /\ live' = {}
    /\ UNCHANGED <<file, ever, dels>>

\* The same three mutations, with the per-key history kept.
Bump(n) == IF n < 2 THEN n + 1 ELSE 2

HInsertRecursive ==
    \E key \in SmallKeys :
        DoInsertRecursive(key) /\ ever' = ever \cup {key} /\ UNCHANGED dels

HInsertIterative ==
    \E key \in SmallKeys :
        DoInsertIterative(key) /\ ever' = ever \cup {key} /\ UNCHANGED dels

HDelete ==
    \E key \in SmallKeys :
        DoDelete(key) /\ dels' = [dels EXCEPT ![key] = Bump(@)] /\ UNCHANGED ever

\* The same three mutations next to the file operations.
FInsertRecursive ==
    \E key \in SmallKeys : DoInsertRecursive(key) /\ UNCHANGED <<ever, dels>>

FInsertIterative ==
    \E key \in SmallKeys : DoInsertIterative(key) /\ UNCHANGED <<ever, dels>>

FDelete == \E key \in SmallKeys : DoDelete(key) /\ UNCHANGED <<ever, dels>>

\* The same three mutations next to loads of hand-written files.
MenuRoom(key) ==
    search_recursive(heap, root, key) = NULL =>
        Cardinality(DOMAIN heap) < MaxMenuNodes

MInsertRecursive ==
    \E key \in MenuKeys :
        MenuRoom(key) /\ DoInsertRecursive(key) /\ UNCHANGED <<ever, dels>>

MInsertIterative ==
    \E key \in MenuKeys :
        MenuRoom(key) /\ DoInsertIterative(key) /\ UNCHANGED <<ever, dels>>

MDelete == \E key \in MenuKeys : DoDelete(key) /\ UNCHANGED <<ever, dels>>

\* ---------------------------------------------------------- specifications
\* The tree engine: mutations and queries on a tree that starts empty.
Next ==
    \/ InsertRecursive
    \/ InsertIterative
    \/ Delete
    \/ Search
    \/ Traversals
    \/ Statistics
    \/ PredSucc

Spec == Init /\ [][Next]_vars

\* Mutations only, with the per-key history.
NextHist == HInsertRecursive \/ HInsertIterative \/ HDelete

SpecHist == Init /\ [][NextHist]_vars

\* Mutations, save, and load of the file that save wrote.
NextCodec ==
    \/ FInsertRecursive
    \/ FInsertIterative
    \/ FDelete
    \/ Save
    \/ LoadSaved

SpecCodec == Init /\ [][NextCodec]_vars

\* ---------------------------------------------- levelOrder, step by step
\* The menu is not served while levelOrder runs.
AtMenu == last.op # "levelOrder"

LInsertRecursive ==
    AtMenu /\ \E key \in Keys : DoInsertRecursive(key) /\ UNCHANGED <<ever, dels>>

LInsertIterative ==
    AtMenu /\ \E key \in Keys : DoInsertIterative(key) /\ UNCHANGED <<ever, dels>>

LDelete == AtMenu /\ \E key \in Keys : DoDelete(key) /\ UNCHANGED <<ever, dels>>

LevelState(op, q, printed, enq, deq) ==
    Report(op, FALSE, <<>>, 0, <<q, printed, enq, deq>>)

\* the call: an empty tree returns at once, otherwise the root is enqueued
LevelCall ==
    /\ AtMenu
    /\ last' = IF root = NULL
               THEN LevelState("levelOrder_end", <<>>, <<>>, <<>>, <<>>)
               ELSE LevelState("levelOrder", enqueue(<<>>, root), <<>>, <<root>>, <<>>)
    /\ UNCHANGED <<heap, root, file, live, ever, dels>>

\* one round of while (head)
LevelStep ==
    /\ last.op = "levelOrder"
    /\ last.out[1] # <<>>
    /\ LET d    == dequeue(last.out[1])
           n    == d.ret
           kids == (IF heap[n].left # NULL THEN <<heap[n].left>> ELSE <<>>)
                   \o (IF heap[n].right # NULL THEN <<heap[n].right>> ELSE <<>>)
           q1   == IF heap[n].left # NULL THEN enqueue(d.q, heap[n].left) ELSE d.q
           q2   == IF heap[n].right # NULL THEN enqueue(q1, heap[n].right) ELSE q1
       IN  last' = LevelState("levelOrder", q2, Append(last.out[2], heap[n].key),
                              last.out[3] \o kids, Append(last.out[4], n))
    /\ UNCHANGED <<heap, root, file, live, ever, dels>>

\* head is NULL: the loop ends and levelOrder returns
LevelReturn ==
    /\ last.op = "levelOrder"
    /\ last.out[1] = <<>>
    /\ last' = [last EXCEPT !.op = "levelOrder_end"]
    /\ UNCHANGED <<heap, root, file, live, ever, dels>>

\* Mutations and level-order traversals; a traversal, once called, runs on.
NextLevel ==
    \/ LInsertRecursive
    \/ LInsertIterative
    \/ LDelete
    \/ LevelCall
    \/ LevelStep
    \/ LevelReturn

SpecLevel ==
    Init /\ [][NextLevel]_vars /\ WF_vars(LevelStep) /\ WF_vars(LevelReturn)

\* Mutations, clear, and load of hand-written files of any content.
NextMenu ==
    \/ MInsertRecursive
    \/ MInsertIterative
    \/ MDelete
    \/ LoadInput
    \/ LoadMissing
    \/ Clear

SpecMenu == Init /\ [][NextMenu]_vars

\* ------------------------------------ files written by hand to the grammar
\* the integers such a file holds
FileKeys == {-7, 0, 9}

RECURSIVE TreeSize(_)
TreeSize(t) == IF t = <<>> THEN 0 ELSE 1 + TreeSize(t[2]) + TreeSize(t[3])

\* node := "#" | INTEGER node node, with at most n INTEGER words
RECURSIVE GrammarTrees(_)
GrammarTrees(n) ==
    IF n = 0 THEN {<<>>}
    ELSE LET S == GrammarTrees(n - 1)
         IN  {<<>>} \cup {<<k, l, r>> : k \in FileKeys,
                                        l \in S, r \in {x \in S : TreeSize(x) < n}}

RECURSIVE GrammarText(_)
GrammarText(t) ==
    IF t = <<>> THEN <<"#", " ">>
    ELSE FormatInt(t[1]) \o <<" ">> \o GrammarText(t[2]) \o GrammarText(t[3])

GrammarFiles ==
    {GrammarText(t) : t \in {x \in GrammarTrees(MaxFileNodes) :
                                TreeSize(x) <= MaxFileNodes}}

\* choice 9 on a file that conforms to the grammar
LoadGrammar == \E f \in GrammarFiles : DoLoad(f)

\* Mutations, clear, and load of files that conform to the grammar.
NextGrammar ==
    \/ MInsertRecursive
    \/ MInsertIterative
    \/ MDelete
    \/ LoadGrammar
    \/ Clear

SpecGrammar == Init /\ [][NextGrammar]_vars

\* ------------------------------------------------------------- properties
\* the addresses of the nodes of the subtree at r
RECURSIVE Nodes(_, _)
Nodes(h, r) ==
    IF r = NULL THEN {}
    ELSE {r} \cup Nodes(h, h[r].left) \cup Nodes(h, h[r].right)

SetMax(S) == CHOOSE x \in S : \A y \in S : y <= x

Ascending(s) == \A i \in 1 .. Len(s) - 1 : s[i] < s[i + 1]

Range(s) == {s[i] : i \in 1 .. Len(s)}

\* C1: after any sequence of insert_recursive, insert_iterative and
\* deleteNode calls from the empty tree, at every node all keys of the left
\* subtree are smaller and all keys of the right subtree are greater than
\* the node's key.
C1_BSTProperty ==
    \A n \in Nodes(heap, root) :
        /\ \A k \in NodeKeys(heap, heap[n].left) : k < heap[n].key
        /\ \A k \in NodeKeys(heap, heap[n].right) : k > heap[n].key

\* a delete has just removed the key of a node that had two children, the
\* right one with a left child of its own
C1_Witness ==
    /\ last.op = "delete"
    /\ last.had
    /\ count_nodes(heap, root) = 3
    /\ 4 \in DOMAIN heap
    /\ heap[root].left # NULL
    /\ heap[root].right # NULL

\* C2: inorder emits a strictly ascending sequence whose keys are exactly
\* the keys inserted and not deleted afterwards.
C2_InorderSorted ==
    /\ Ascending(inorder(heap, root))
    /\ Range(inorder(heap, root)) = live
    /\ last.op = "traversals" => last.out[1] = inorder(heap, root)

\* the traversals were printed for a three-key tree that once held four
C2_Witness ==
    /\ last.op = "traversals"
    /\ Len(last.out[1]) = 3
    /\ 4 \in DOMAIN heap

\* C3: an insert of a key already present, by either insert, and a delete
\* of an absent key change no cell and not the root, so that count, height
\* and the four traversals stay what they were.
C3_NoOpFrame ==
    [][ (\/ last'.op \in {"insert_recursive", "insert_iterative"} /\ last'.had
         \/ last'.op = "delete" /\ ~last'.had)
        => /\ heap' = heap
           /\ root' = root
           /\ Snap(heap', root') = Snap(heap, root) ]_vars

\* a duplicate was offered to insert_iterative on a three-node tree
C3_Witness ==
    /\ last.op = "insert_iterative"
    /\ last.had
    /\ count_nodes(heap, root) = 3

\* C4: on every reachable tree and for every key, insert_recursive and
\* insert_iterative return the same root and leave the same cells.
C4_InsertsAgree ==
    \A k \in Keys :
        (search_recursive(heap, root, k) = NULL => CanAlloc(heap))
        => insert_recursive(heap, root, k) = insert_iterative(heap, root, k)

\* insert_iterative has just attached a new node at depth three
C4_Witness ==
    /\ last.op = "insert_iterative"
    /\ ~last.had
    /\ height(heap, root) = 3
    /\ count_nodes(heap, root) = 4

\* C7: predecessor returns the node with the largest key below k, successor
\* the one with the smallest key above k, for k in the tree or not, and NULL
\* exactly when there is no such key.
C7_Neighbours ==
    \A k \in Keys :
        LET ks    == NodeKeys(heap, root)
            below == {x \in ks : x < k}
            above == {x \in ks : x > k}
            p     == predecessor(heap, root, k)
            q     == successor(heap, root, k)
        IN  /\ (p = NULL) <=> (below = {})
            /\ p # NULL => p \in Nodes(heap, root) /\ heap[p].key = SetMax(below)
            /\ (q = NULL) <=> (above = {})
            /\ q # NULL => q \in Nodes(heap, root) /\ heap[q].key = SetMin(above)

\* the neighbours were asked for while some key outside the tree had both
\* and some key in the tree had both below its own node
C7_Witness ==
    /\ last.op = "predsucc"
    /\ \E k \in Keys \ NodeKeys(heap, root) :
           predecessor(heap, root, k) # NULL /\ successor(heap, root, k) # NULL
    /\ \E n \in Nodes(heap, root) :
           /\ heap[n].left # NULL /\ heap[n].right # NULL
           /\ predecessor(heap, root, heap[n].key) \in Nodes(heap, heap[n].left)
           /\ successor(heap, root, heap[n].key) \in Nodes(heap, heap[n].right)

\* ------------------------------------------------- the persisted grammar
\* node := "#" | INTEGER node node, over the words of a file
IsInteger(w) ==
    LET d == IF w # <<>> /\ w[1] \in {"-", "+"} THEN Tail(w) ELSE w
    IN  d # <<>> /\ \A i \in 1 .. Len(d) : IsDigit(d[i])

\* the number of words of ws, from word i on, that make up one node, or -1
\* when the words end first or a word is neither "#" nor an integer
RECURSIVE NodeLen(_, _)
NodeLen(ws, i) ==
    IF i > Len(ws) THEN -1
    ELSE IF ws[i] = <<"#">> THEN 1
    ELSE IF ~IsInteger(ws[i]) THEN -1
    ELSE LET l == NodeLen(ws, i + 1)
         IN  IF l < 0 THEN -1
             ELSE LET r == NodeLen(ws, i + 1 + l)
                  IN  IF r < 0 THEN -1 ELSE 1 + l + r

Malformed(f) == NodeLen(Words(f, 0), 1) < 0

\* C5: loading the file that save wrote gives back the tree that was saved:
\* the same shape, hence the same words when saved again, the same count,
\* height and traversals.
C5_RoundTrip ==
    (last.op = "load" /\ file.exists /\ last.input = file.data)
    => /\ Snap(heap, root) = file.snap
       /\ Words(save_tree_preorder(heap, root), 0) = Words(file.data, 0)

\* a saved three-node tree with a negative and a two-digit key was loaded
C5_Witness ==
    /\ last.op = "load"
    /\ file.exists
    /\ count_nodes(heap, root) = 3
    /\ heap[root].left # NULL
    /\ heap[root].right # NULL
    /\ \E k \in NodeKeys(heap, root) : k < 0
    /\ \E k \in NodeKeys(heap, root) : k > 9

\* C6 as stated: once every key ever inserted has been deleted exactly once,
\* however the deletes are interleaved with the inserts, the tree is empty.
EmptyTree ==
    /\ root = NULL
    /\ count_nodes(heap, root) = 0
    /\ Words(save_tree_preorder(heap, root), 0) = << <<"#">> >>

C6_DeletedOnceEmpty ==
    (ever # {} /\ \A k \in ever : dels[k] = 1) => EmptyTree

\* C6, amended: once every key ever inserted has been deleted exactly once,
\* and that delete came after the key's last insert, the tree is empty.
C6_DeletedAfterInsertEmpty ==
    (ever # {} /\ \A k \in ever : dels[k] = 1 /\ k \notin live) => EmptyTree

\* all the keys were inserted, and the last one has just been deleted
C6_Witness ==
    /\ last.op = "delete"
    /\ last.had
    /\ ever = SmallKeys
    /\ \A k \in ever : dels[k] = 1
    /\ live = {}

\* C8 as stated: a load from a malformed file leaves the tree held before
\* the load untouched.
C8_LoadAllOrNothing ==
    [][ (last'.op = "load" /\ Malformed(last'.input))
        => heap' = heap /\ root' = root ]_vars

\* C9 as stated: after a load from a malformed file no node built from that
\* file is in the tree: each node of the tree is a cell of the tree held
\* before, unchanged.
C9_NoPartialTree ==
    [][ (last'.op = "load" /\ Malformed(last'.input))
        => \A n \in Nodes(heap', root') :
               n \in DOMAIN heap /\ heap'[n] = heap[n] ]_vars

\* C10: when the file starts with a well-formed node, a load reads exactly
\* the words of that node and leaves every later word unread.
C10_ReadsOneNode ==
    last.op = "load" =>
        LET ws == Words(last.input, 0)
            n  == NodeLen(ws, 1)
        IN  n > 0 =>
              /\ Words(last.input, last.pos) = SubSeq(ws, n + 1, Len(ws))
              /\ Len(ws) - Len(Words(last.input, last.pos)) = n

\* a one-node tree was loaded from a file with a further word after it
C10_Witness ==
    /\ last.op = "load"
    /\ NodeLen(Words(last.input, 0), 1) = 3
    /\ Len(Words(last.input, 0)) = 4
    /\ root # NULL

\* ------------------------------------------------------------------ search
\* C11: for every key, search_recursive returns a node of the tree that holds
\* the key exactly when the key was inserted and not deleted afterwards, and
\* returns NULL otherwise.
C11_SearchFindsLive ==
    \A k \in Keys :
        LET s == search_recursive(heap, root, k)
        IN  IF k \in live
            THEN s \in Nodes(heap, root) /\ heap[s].key = k
            ELSE s = NULL

\* a search was made in a tree of height 3:
\* some key is found below the root, some key is absent
C11_Witness ==
    /\ last.op = "search"
    /\ height(heap, root) = 3
    /\ \E k \in live : search_recursive(heap, root, k) \notin {NULL, root}
    /\ \E k \in Keys \ live : search_recursive(heap, root, k) = NULL

\* -------------------------------------------------------------- statistics
\* the depths (root = 1) of the leaves below node n, itself at depth d
RECURSIVE LeafDepths(_, _, _)
LeafDepths(h, n, d) ==
    IF h[n].left = NULL /\ h[n].right = NULL THEN {d}
    ELSE (IF h[n].left = NULL THEN {} ELSE LeafDepths(h, h[n].left, d + 1))
         \cup (IF h[n].right = NULL THEN {} ELSE LeafDepths(h, h[n].right, d + 1))

\* what the three statistics are said to be, for the tree at r
StatsAsDefined(h, r) ==
    /\ count_nodes(h, r) = Cardinality(NodeKeys(h, r))
    /\ height(h, r) = IF r = NULL THEN 0 ELSE SetMax(LeafDepths(h, r, 1))
    /\ count_leaves(h, r) =
           Cardinality({n \in Nodes(h, r) : h[n].left = NULL /\ h[n].right = NULL})

\* the worked example: seven keys typed in this order into an empty tree
Scenario7 == <<50, 30, 70, 20, 40, 60, 80>>

RECURSIVE BuildRecursive(_, _, _)
BuildRecursive(h, r, keys) ==
    IF keys = <<>> THEN [h |-> h, ret |-> r]
    ELSE LET t == insert_recursive(h, r, Head(keys))
         IN  BuildRecursive(t.h, t.ret, Tail(keys))

RECURSIVE BuildIterative(_, _, _)
BuildIterative(h, r, keys) ==
    IF keys = <<>> THEN [h |-> h, ret |-> r]
    ELSE LET t == insert_iterative(h, r, Head(keys))
         IN  BuildIterative(t.h, t.ret, Tail(keys))

ScenarioStats(t) ==
    /\ count_nodes(t.h, t.ret) = 7
    /\ height(t.h, t.ret) = 3
    /\ count_leaves(t.h, t.ret) = 4
    /\ StatsAsDefined(t.h, t.ret)

\* C12: after any inserts and deletes count_nodes is the number of distinct
\* keys in the tree (the keys inserted and not deleted since), height is 0
\* for the empty tree and otherwise the number of nodes on the longest path
\* from the root to a leaf, and count_leaves is the number of nodes without
\* children; and whenever the tree is empty, typing 50 30 70 20 40 60 80
\* into it (with either insert) gives count 7, height 3 and 4 leaves.
C12_Statistics ==
    /\ StatsAsDefined(heap, root)
    /\ count_nodes(heap, root) = Cardinality(live)
    /\ root = NULL =>
           /\ ScenarioStats(BuildRecursive(heap, root, Scenario7))
           /\ ScenarioStats(BuildIterative(heap, root, Scenario7))

\* the statistics were printed for a tree of four nodes whose longest path
\* is not its only path, and the example's tree has its seven nodes
C12_Witness ==
    /\ last.op = "statistics"
    /\ last.out = <<3, 4, 2>>
    /\ Cardinality(live) = 4
    /\ Cardinality(Nodes(BuildRecursive(EmptyHeap, NULL, Scenario7).h,
                          BuildRecursive(EmptyHeap, NULL, Scenario7).ret)) = 7

\* ------------------------------------------------------- the written file
\* the integer an INTEGER word of the grammar denotes
RECURSIVE DigitsValue(_)
DigitsValue(d) ==
    IF d = <<>> THEN 0
    ELSE 10 * DigitsValue(SubSeq(d, 1, Len(d) - 1)) + DigitVal(d[Len(d)])

WordValue(w) ==
    IF w[1] = "-" THEN 0 - DigitsValue(Tail(w))
    ELSE IF w[1] = "+" THEN DigitsValue(Tail(w))
    ELSE DigitsValue(w)

\* the tree the grammar reads from the node that starts at word i
RECURSIVE Denoted(_, _)
Denoted(ws, i) ==
    IF ws[i] = <<"#">> THEN <<>>
    ELSE <<WordValue(ws[i]), Denoted(ws, i + 1),
           Denoted(ws, i + 1 + NodeLen(ws, i + 1))>>

\* C13: the words save_tree_preorder wrote form exactly one node of the
\* grammar: they denote the saved tree (key first, then the left and then
\* the right encoding, one "#" for each absent child), the key words in
\* order are the preorder traversal, and an empty tree is the single word "#".
C13_SaveGrammar ==
    file.exists =>
        LET ws   == Words(file.data, 0)
            keys == SelectSeq(ws, LAMBDA w : w # <<"#">>)
        IN  /\ NodeLen(ws, 1) = Len(ws)
            /\ Denoted(ws, 1) = file.snap[1]
            /\ [i \in 1 .. Len(keys) |-> WordValue(keys[i])] = file.snap[5]
            /\ Len(ws) - Len(keys) = file.snap[2] + 1
            /\ file.snap[2] = 0 => ws = << <<"#">> >>

\* a tree of three nodes with a node that has one child was just saved
C13_Witness ==
    /\ last.op = "save"
    /\ file.data = save_tree_preorder(heap, root)
    /\ count_nodes(heap, root) = 3
    /\ height(heap, root) = 3
    /\ \E n \in Nodes(heap, root) : heap[n].key < 0

\* ------------------------------------------------------------------ delete
\* a tree value without its leftmost node, whose right subtree moves up
RECURSIVE RemoveMin(_)
RemoveMin(t) == IF t[2] = <<>> THEN t[3] ELSE <<t[1], RemoveMin(t[2]), t[3]>>

\* deleting the key of node n, which has two children, from the tree at r0:
\* r is what deleteNode returns
TwoChildDelete(h, r0, n, r) ==
    /\ r.ret = r0
    /\ n \in DOMAIN r.h
    /\ \A m \in Nodes(h, r0) \ Nodes(h, n) : m \in DOMAIN r.h /\ r.h[m] = h[m]
    /\ r.h[n].key = SetMin(NodeKeys(h, h[n].right))
    /\ r.h[n].left = h[n].left
    /\ \A m \in Nodes(h, h[n].left) : m \in DOMAIN r.h /\ r.h[m] = h[m]
    /\ Shape(r.h, r.h[n].right) = RemoveMin(Shape(h, h[n].right))
    /\ NodeKeys(r.h, r.h[n].right) =
           NodeKeys(h, h[n].right) \ {SetMin(NodeKeys(h, h[n].right))}

ScenarioDelete(t) ==
    LET d == deleteNode(t.h, t.ret, 50)
    IN  /\ d.ret = t.ret
        /\ d.h[d.ret].key = 60
        /\ inorder(d.h, d.ret) = <<20, 30, 40, 60, 70, 80>>
        /\ count_nodes(d.h, d.ret) = 6

\* C14: deleting the key of a node with two children leaves that node where
\* it is, holding the smallest key of its former right subtree; its left
\* subtree is untouched and its right subtree is the former one without
\* that smallest key.  Deleting 50 from the tree built from
\* 50 30 70 20 40 60 80 leaves 60 at the root and 20 30 40 60 70 80 in order.
C14_TwoChildDelete ==
    /\ \A n \in Nodes(heap, root) :
           (heap[n].left # NULL /\ heap[n].right # NULL) =>
               TwoChildDelete(heap, root, n, deleteNode(heap, root, heap[n].key))
    /\ root = NULL =>
           /\ ScenarioDelete(BuildRecursive(heap, root, Scenario7))
           /\ ScenarioDelete(BuildIterative(heap, root, Scenario7))

\* a key whose node had two children was just deleted, and the node that
\* took the key over still has a left subtree and a right subtree
C14_Witness ==
    /\ last.op = "delete" /\ last.had /\ last.out = <<2>>
    /\ count_nodes(heap, root) = 3
    /\ \E n \in Nodes(heap, root) : heap[n].left # NULL /\ heap[n].right # NULL

\* C15: in the two-child case the nested deleteNode call finds the key it
\* is given at a node without a left child and frees that node, so the
\* two-child case is entered at most once; a delete of a key in the tree
\* frees exactly one node and changes the key of at most one node, a delete
\* of any other key frees and changes nothing.
C15_SingleLevel ==
    \A k \in Keys :
        LET tr      == DeleteTrace(heap, root, k)
            r       == deleteNode(heap, root, k)
            freed   == DOMAIN heap \ DOMAIN r.h
            changed == {m \in DOMAIN r.h \cap DOMAIN heap : r.h[m].key # heap[m].key}
        IN  /\ DOMAIN r.h \subseteq DOMAIN heap
            /\ Cardinality(freed) = IF k \in live THEN 1 ELSE 0
            /\ Cardinality(changed) <= 1
            /\ IF tr[1][1] = "two"
               THEN /\ Len(tr) = 2
                    /\ tr[2][1] = "noLeft"
                    /\ heap[tr[2][2]].left = NULL
                    /\ heap[tr[2][2]].key = SetMin(NodeKeys(heap, heap[tr[1][2]].right))
                    /\ freed = {tr[2][2]}
                    /\ changed = {tr[1][2]}
               ELSE /\ Len(tr) = 1
                    /\ changed = {}
                    /\ freed = {tr[1][2]} \ {NULL}

\* a key whose node had two children was just deleted: one cell of the four
\* is gone, and it is not the one allocated last
C15_Witness ==
    /\ last.op = "delete" /\ last.out = <<2>>
    /\ Cardinality(DOMAIN heap) = 3
    /\ 4 \in DOMAIN heap
    /\ height(heap, root) = 3

\* deleting the key of node n, which has at most one child, from the tree
\* at r0: r is what deleteNode returns, c the child of n (NULL if none)
Unlinked(h, r0, n, r) ==
    LET c == IF h[n].left # NULL THEN h[n].left ELSE h[n].right
        to(p) == IF p = n THEN c ELSE p
    IN  /\ DOMAIN r.h = DOMAIN h \ {n}
        /\ r.ret = to(r0)
        /\ \A m \in DOMAIN r.h :
               r.h[m] = Node(h[m].key, to(h[m].left), to(h[m].right))

\* C16: deleting the key of a node without children makes the link that
\* pointed to it NULL; deleting the key of a node with one child makes that
\* link point to the child, whose subtree stays as it was; every other node
\* keeps its key and its children, and only the deleted node is freed.
C16_LeafAndOneChild ==
    \A n \in Nodes(heap, root) :
        (heap[n].left = NULL \/ heap[n].right = NULL) =>
            Unlinked(heap, root, n, deleteNode(heap, root, heap[n].key))

\* a key whose node had one child was just deleted below the root, which
\* still has both children
C16_Witness ==
    /\ last.op = "delete" /\ last.had /\ last.out = <<1>>
    /\ count_nodes(heap, root) = 3
    /\ heap[root].left # NULL /\ heap[root].right # NULL

\* -------------------------------------------------------------- levelOrder
\* the nodes at depth d (root = 1) below n, from left to right
RECURSIVE Level(_, _, _)
Level(h, n, d) ==
    IF n = NULL THEN <<>>
    ELSE IF d = 1 THEN <<n>>
    ELSE Level(h, h[n].left, d - 1) \o Level(h, h[n].right, d - 1)

\* all nodes, depth by depth from the root down, left to right in a depth
RECURSIVE Levels(_, _, _)
Levels(h, r, d) ==
    IF d > height(h, r) THEN <<>> ELSE Level(h, r, d) \o Levels(h, r, d + 1)

IsPrefix(a, b) == Len(a) <= Len(b) /\ a = SubSeq(b, 1, Len(a))

LevelSafe ==
    last.op \in {"levelOrder", "levelOrder_end"} =>
        LET q       == last.out[1]
            printed == last.out[2]
            enq     == last.out[3]
            deq     == last.out[4]
        IN  /\ enq = deq \o q
            /\ IsPrefix(enq, Levels(heap, root, 1))
            /\ printed = [i \in 1 .. Len(deq) |-> heap[deq[i]].key]
            /\ last.op = "levelOrder_end" =>
                   /\ q = <<>>
                   /\ enq = Levels(heap, root, 1)
                   /\ Range(deq) = Nodes(heap, root)
                   /\ Len(deq) = count_nodes(heap, root)
                   /\ printed = levelOrder(heap, root)

\* C17: levelOrder, once called, returns, and returns with an empty queue;
\* the nodes are enqueued root first, depth by depth and left to right in a
\* depth, each node once; they are dequeued in the order they were enqueued,
\* each once, and the keys are printed in that order.
C17_LevelOrder ==
    /\ []LevelSafe
    /\ (last.op = "levelOrder") ~> (last.op = "levelOrder_end")

\* levelOrder has returned from a tree of four nodes in which the order by
\* depth is not the preorder
C17_Witness ==
    /\ last.op = "levelOrder_end"
    /\ Len(last.out[2]) = 4
    /\ last.out[1] = <<>>
    /\ last.out[2] # preorder(heap, root)

\* ------------------------------------------------------------ ownership
\* the addresses reached from the addresses in S by following left and
\* right; a freed address is reached but has no links to follow
RECURSIVE Reach(_, _)
Reach(h, S) ==
    LET T == S \cup (({h[n].left : n \in S \cap DOMAIN h}
                      \cup {h[n].right : n \in S \cap DOMAIN h}) \ {NULL})
    IN  IF T = S THEN S ELSE Reach(h, T)

\* the number of links (the root pointer, left and right fields) that hold n
LinksTo(h, r, n) ==
    (IF r = n THEN 1 ELSE 0)
    + Cardinality({m \in DOMAIN h : h[m].left = n})
    + Cardinality({m \in DOMAIN h : h[m].right = n})

C19_LoadedIsBST ==
    (last.op = "load" /\ NodeLen(Words(last.input, 0), 1) = Len(Words(last.input, 0)))
    => /\ \A n \in Nodes(heap, root) :
              /\ \A k \in NodeKeys(heap, heap[n].left) : k < heap[n].key
              /\ \A k \in NodeKeys(heap, heap[n].right) : k > heap[n].key
       /\ Cardinality(NodeKeys(heap, root)) = count_nodes(heap, root)

====
